---- MODULE Spec2Model ----
(***************************************************************************)
(* Model of src/app.py: the chunked transcription pipeline                 *)
(* transcribe_audio() and the start-transcription handler that calls it.   *)
(*                                                                         *)
(* One request is modelled from the button press to the end of the script  *)
(* run.  The environment's inputs are the decoded duration, the outcome of *)
(* every recognizer call, and whether each file-system / decoding step     *)
(* raises.                                                                 *)
(***************************************************************************)
EXTENDS Integers, Sequences, FiniteSets

\* ---------------------------------------------------------------- bounds
\* Largest number of whole 30 s windows in an input.
MaxWindows == 3

\* ------------------------------------------------------ program constants
\* app.py:58   chunk_length_ms = 30 * 1000
chunk_length_ms == 30000

\* ----------------------------------------------------------------- inputs
\* Offsets past a window boundary that the inputs exercise.
Remainders == {0, 1, 5000, chunk_length_ms - 1}

\* Durations len(audio) can return (app.py:59).
Durations == {k * chunk_length_ms + r : k \in 0..MaxWindows, r \in Remainders}

\* The two exceptions recognize_google raises (app.py:84, 86).
UnknownValueError == "UnknownValueError"
RequestError == "RequestError"
RecognizerErrors == {UnknownValueError, RequestError}

\* Transcripts recognize_google can return (app.py:82); "" is an empty one.
Texts == {"", "a", "b"}

\* Everything a call of recognize_google can end with.
Outcomes == Texts \cup RecognizerErrors

\* Temporary files: tmp_path (app.py:50), chunk_file.name of iteration k
\* (app.py:75), output_path (app.py:100).
tmp_path == <<"upload", 0>>
chunk_file(k) == <<"chunk", k>>
output_path == <<"docx", 0>>

VARIABLES
    pc,               \* position of the request in the script
    total_length_ms,  \* len(audio); -1 before decoding
    total_chunks,     \* math.ceil(total_length_ms / chunk_length_ms); -1 before
    i,                \* loop variable of "for i in range(total_chunks)"
    chunks,           \* <<start, end>> of every slice audio[start_ms:end_ms] taken
    doc,              \* paragraphs of the Document, in order
    doc2,             \* paragraphs of a twin run whose failures differ in kind only
    files,            \* temporary files that exist
    created,          \* temporary files ever created
    calls,            \* chunk numbers handed to recognize_google, in call order
    outcomes,         \* what each returned call ended with
    outcomes2,        \* what the twin run's calls ended with
    progress,         \* arguments of progress_bar.progress: <<i + 1, total_chunks>>
    result,           \* return value of transcribe_audio
    errorShown,       \* st.error was called (app.py:110)
    downloadOffered,  \* st.download_button was called (app.py:124)
    faults            \* fatal steps that raised so far

vars == <<pc, total_length_ms, total_chunks, i, chunks, doc, doc2, files, created,
          calls, outcomes, outcomes2, progress, result, errorShown, downloadOffered,
          faults>>

\* -------------------------------------------------------- pure functions
\* app.py:60   math.ceil(total_length_ms / chunk_length_ms)
TotalChunks_FloorPlusOne(D) == D \div chunk_length_ms + 1
TotalChunks(D) ==
    IF D % chunk_length_ms = 0 THEN D \div chunk_length_ms
                               ELSE D \div chunk_length_ms + 1

Min(a, b) == IF a < b THEN a ELSE b

\* app.py:72   audio[start_ms:end_ms]; a slice is clamped to the audio's length
Slice_Unclamped(D, start_ms, end_ms) == <<start_ms, end_ms>>
Slice(D, start_ms, end_ms) == <<Min(start_ms, D), Min(end_ms, D)>>

\* app.py:84-87   the except clauses around recognize_google
IsCaught_OnlyUnknownValue(o) == o = UnknownValueError
IsCaught(o) == o \in {UnknownValueError, RequestError}

\* app.py:80-87   value of text after the try statement
SegmentText_ErrorAsText(o) == IF o = RequestError THEN "a"
                              ELSE IF o = UnknownValueError THEN "" ELSE o
SegmentText(o) == IF o \in RecognizerErrors THEN "" ELSE o

\* app.py:89-91   if text: doc.add_paragraph(text)
AddParagraph_Always(d, text) == Append(d, text)
AddParagraph_Prepend(d, text) == IF text # "" THEN <<text>> \o d ELSE d
AddParagraph(d, text) == IF text # "" THEN Append(d, text) ELSE d

\* ------------------------------------------------------------------ Init
Init ==
    /\ pc = "idle"
    /\ total_length_ms = -1
    /\ total_chunks = -1
    /\ i = 0
    /\ chunks = <<>>
    /\ doc = <<>>
    /\ doc2 = <<>>
    /\ files = {}
    /\ created = {}
    /\ calls = <<>>
    /\ outcomes = <<>>
    /\ outcomes2 = <<>>
    /\ progress = <<>>
    /\ result = "unset"
    /\ errorShown = FALSE
    /\ downloadOffered = FALSE
    /\ faults = {}

\* --------------------------------------------------------------- actions
\* app.py:115-117, 37-50: button pressed, transcribe_audio called, the
\* Document created and the upload saved to tmp_path.
Start ==
    /\ pc = "idle"
    /\ doc' = <<>>
    /\ doc2' = <<>>
    /\ files' = files \cup {tmp_path}
    /\ created' = created \cup {tmp_path}
    /\ pc' = "decode"
    /\ UNCHANGED <<total_length_ms, total_chunks, i, chunks, calls, outcomes, outcomes2,
                   progress, result, errorShown, downloadOffered, faults>>

\* app.py:55-56: AudioSegment.from_file decodes the upload, or raises.
Decode ==
    /\ pc = "decode"
    /\ \/ \E D \in Durations :
            /\ total_length_ms' = D
            /\ pc' = "chunking"
            /\ faults' = faults
       \/ /\ total_length_ms' = total_length_ms
          /\ pc' = "handler"
          /\ faults' = faults \cup {"decode"}
    /\ UNCHANGED <<total_chunks, i, chunks, doc, doc2, files, created, calls,
                   outcomes, outcomes2, progress, result, errorShown, downloadOffered>>

\* app.py:58-66: the chunk count.
ComputeChunks ==
    /\ pc = "chunking"
    /\ total_chunks' = TotalChunks(total_length_ms)
    /\ i' = 0
    /\ pc' = "loop"
    /\ UNCHANGED <<total_length_ms, chunks, doc, doc2, files, created, calls,
                   outcomes, outcomes2, progress, result, errorShown, downloadOffered, faults>>

\* app.py:69-72: the loop takes its next index and slices the audio.
LoopBody ==
    /\ pc = "loop"
    /\ i < total_chunks
    /\ chunks' = Append(chunks, Slice(total_length_ms, i * chunk_length_ms,
                                      i * chunk_length_ms + chunk_length_ms))
    /\ pc' = "export"
    /\ UNCHANGED <<total_length_ms, total_chunks, i, doc, doc2, files, created,
                   calls, outcomes, outcomes2, progress, result, errorShown, downloadOffered,
                   faults>>

\* The loop left one iteration early.
LoopExit_OneEarly ==
    /\ pc = "loop"
    /\ ~(i + 1 < total_chunks)
    /\ pc' = "save"
    /\ UNCHANGED <<total_length_ms, total_chunks, i, chunks, doc, doc2, files,
                   created, calls, outcomes, outcomes2, progress, result, errorShown,
                   downloadOffered, faults>>

\* app.py:69, 99: range(total_chunks) is exhausted.
LoopExit ==
    /\ pc = "loop"
    /\ ~(i < total_chunks)
    /\ pc' = "save"
    /\ UNCHANGED <<total_length_ms, total_chunks, i, chunks, doc, doc2, files,
                   created, calls, outcomes, outcomes2, progress, result, errorShown,
                   downloadOffered, faults>>

\* app.py:75-79: the chunk's WAV file is created (delete=False), the chunk is
\* exported into it and read back; an I/O error leaves the file in place.
ExportChunk ==
    /\ pc = "export"
    /\ files' = files \cup {chunk_file(i + 1)}
    /\ created' = created \cup {chunk_file(i + 1)}
    /\ \/ /\ pc' = "recognize"
          /\ faults' = faults
       \/ /\ pc' = "handler"
          /\ faults' = faults \cup {"export"}
    /\ UNCHANGED <<total_length_ms, total_chunks, i, chunks, doc, doc2, calls,
                   outcomes, outcomes2, progress, result, errorShown, downloadOffered>>

\* app.py:80-82: text = "" and recognize_google is called; the call blocks.
CallRecognizer ==
    /\ pc = "recognize"
    /\ calls' = Append(calls, i + 1)
    /\ pc' = "recognizing"
    /\ UNCHANGED <<total_length_ms, total_chunks, i, chunks, doc, doc2, files,
                   created, outcomes, outcomes2, progress, result, errorShown, downloadOffered,
                   faults>>

\* Outcomes the twin run may get where this run gets o: the same one, or the
\* other recoverable failure.
Twin(o) == IF o \in RecognizerErrors THEN RecognizerErrors ELSE {o}

\* An exception the inner except clauses do not catch reaches app.py:108.
RecognizerReturns_Retry ==
    /\ pc = "recognizing"
    /\ \E o \in Outcomes : \E o2 \in Twin(o) :
        /\ outcomes' = Append(outcomes, o)
        /\ outcomes2' = Append(outcomes2, o2)
        /\ IF o \in RecognizerErrors /\ ~IsCaught(o)
             THEN /\ pc' = "handler"
                  /\ faults' = faults \cup {"recognize"}
                  /\ UNCHANGED <<doc, doc2>>
             ELSE /\ pc' = IF o = RequestError THEN "recognize" ELSE "unlink_chunk"
                  /\ faults' = faults
                  /\ doc' = AddParagraph(doc, SegmentText(o))
                  /\ doc2' = AddParagraph(doc2, SegmentText(o2))
    /\ UNCHANGED <<total_length_ms, total_chunks, i, chunks, files, created, calls,
                   progress, result, errorShown, downloadOffered>>

\* app.py:82-91: the call returns a transcript or raises; the except clauses
\* leave text empty; a non-empty text becomes a paragraph.
RecognizerReturns ==
    /\ pc = "recognizing"
    /\ \E o \in Outcomes : \E o2 \in Twin(o) :
        /\ outcomes' = Append(outcomes, o)
        /\ outcomes2' = Append(outcomes2, o2)
        /\ IF o \in RecognizerErrors /\ ~IsCaught(o)
             THEN /\ pc' = "handler"
                  /\ faults' = faults \cup {"recognize"}
                  /\ UNCHANGED <<doc, doc2>>
             ELSE /\ pc' = "unlink_chunk"
                  /\ faults' = faults
                  /\ doc' = AddParagraph(doc, SegmentText(o))
                  /\ doc2' = AddParagraph(doc2, SegmentText(o2))
    /\ UNCHANGED <<total_length_ms, total_chunks, i, chunks, files, created, calls,
                   progress, result, errorShown, downloadOffered>>

\* app.py:94: os.unlink(chunk_file.name) removes the chunk file, or raises
\* (as it does where an open file cannot be removed) and leaves it.
UnlinkChunk ==
    /\ pc = "unlink_chunk"
    /\ \/ /\ files' = files \ {chunk_file(i + 1)}
          /\ pc' = "progress"
          /\ faults' = faults
       \/ /\ files' = files
          /\ pc' = "handler"
          /\ faults' = faults \cup {"unlink_chunk"}
    /\ UNCHANGED <<total_length_ms, total_chunks, i, chunks, doc, doc2, created,
                   calls, outcomes, outcomes2, progress, result, errorShown, downloadOffered>>

\* app.py:97: progress_bar.progress((i + 1) / total_chunks); a zero divisor
\* raises ZeroDivisionError.  Then the loop variable advances.
UpdateProgress ==
    /\ pc = "progress"
    /\ IF total_chunks = 0
         THEN /\ pc' = "handler"
              /\ faults' = faults \cup {"progress"}
              /\ UNCHANGED <<progress, i>>
         ELSE /\ progress' = Append(progress, <<i + 1, total_chunks>>)
              /\ i' = i + 1
              /\ pc' = "loop"
              /\ faults' = faults
    /\ UNCHANGED <<total_length_ms, total_chunks, chunks, doc, doc2, files, created,
                   calls, outcomes, outcomes2, result, errorShown, downloadOffered>>

\* app.py:100-101: the output file is created (delete=False) and the document
\* saved into it; an I/O error leaves the file in place.
SaveDocument ==
    /\ pc = "save"
    /\ files' = files \cup {output_path}
    /\ created' = created \cup {output_path}
    /\ \/ /\ pc' = "unlink_upload"
          /\ faults' = faults
       \/ /\ pc' = "handler"
          /\ faults' = faults \cup {"save"}
    /\ UNCHANGED <<total_length_ms, total_chunks, i, chunks, doc, doc2, calls,
                   outcomes, outcomes2, progress, result, errorShown, downloadOffered>>

\* app.py:104-106: os.unlink(tmp_path), then return output_path.
UnlinkUpload ==
    /\ pc = "unlink_upload"
    /\ \/ /\ files' = files \ {tmp_path}
          /\ result' = "output_path"
          /\ pc' = "returned"
          /\ faults' = faults
       \/ /\ files' = files
          /\ result' = result
          /\ pc' = "handler"
          /\ faults' = faults \cup {"unlink_upload"}
    /\ UNCHANGED <<total_length_ms, total_chunks, i, chunks, doc, doc2, created,
                   calls, outcomes, outcomes2, progress, errorShown, downloadOffered>>

\* The handler without its os.unlink.
Handler_NoUnlink ==
    /\ pc = "handler"
    /\ files' = files
    /\ errorShown' = TRUE
    /\ result' = "None"
    /\ pc' = "returned"
    /\ faults' = faults
    /\ UNCHANGED <<total_length_ms, total_chunks, i, chunks, doc, doc2, created,
                   calls, outcomes, outcomes2, progress, downloadOffered>>

\* app.py:108-111: except Exception: os.unlink(tmp_path), st.error, return
\* None.  If this os.unlink raises, the exception leaves transcribe_audio.
Handler ==
    /\ pc = "handler"
    /\ \/ /\ files' = files \ {tmp_path}
          /\ errorShown' = TRUE
          /\ result' = "None"
          /\ pc' = "returned"
          /\ faults' = faults
       \/ /\ files' = files
          /\ errorShown' = errorShown
          /\ result' = result
          /\ pc' = "raised"
          /\ faults' = faults \cup {"unlink_handler"}
    /\ UNCHANGED <<total_length_ms, total_chunks, i, chunks, doc, doc2, created,
                   calls, outcomes, outcomes2, progress, downloadOffered>>

\* app.py:117-132: back in the caller: a document is offered for download and
\* its file removed; None is skipped.
Caller ==
    /\ pc = "returned"
    /\ IF result = "output_path"
         THEN /\ downloadOffered' = TRUE
              /\ \/ /\ files' = files \ {output_path}
                    /\ pc' = "done"
                    /\ faults' = faults
                 \/ /\ files' = files
                    /\ pc' = "raised"
                    /\ faults' = faults \cup {"unlink_output"}
         ELSE /\ pc' = "done"
              /\ UNCHANGED <<downloadOffered, files, faults>>
    /\ UNCHANGED <<total_length_ms, total_chunks, i, chunks, doc, doc2, created,
                   calls, outcomes, outcomes2, progress, result, errorShown>>

Next ==
    \/ Start
    \/ Decode
    \/ ComputeChunks
    \/ LoopBody
    \/ LoopExit
    \/ ExportChunk
    \/ CallRecognizer
    \/ RecognizerReturns
    \/ UnlinkChunk
    \/ UpdateProgress
    \/ SaveDocument
    \/ UnlinkUpload
    \/ Handler
    \/ Caller

Spec == Init /\ [][Next]_vars

\* ----------------------------------------------------- derived notions
\* The request is over: the script run ended normally or with an exception
\* that left transcribe_audio or its caller.
Ended == pc \in {"done", "raised"}

\* transcribe_audio returned a document.
Succeeded == result = "output_path"

\* The for loop ran to its end.
LoopEnded == pc \in {"save", "unlink_upload"} \/ output_path \in created

\* Fatal steps other than the recognizer that raised.
IOFaults == faults \ {"recognize"}

\* The phase of the pipeline's state machine a position belongs to:
\* Decoding is app.py:55-56, Chunking 58-66, Transcribing(i+1/n) the loop
\* body 69-97, Assembling the exhausted loop, Serialized the emitter
\* 100-106 and the delivery 119-132, Failed the handler 108-111 and any
\* exception that escapes.
Phase ==
    CASE pc = "idle" -> "Idle"
      [] pc = "decode" -> "Decoding"
      [] pc = "chunking" -> "Chunking"
      [] pc = "loop" -> IF i < total_chunks THEN "Transcribing" ELSE "Assembling"
      [] pc \in {"export", "recognize", "recognizing", "unlink_chunk", "progress"}
           -> "Transcribing"
      [] pc \in {"save", "unlink_upload"} -> "Serialized"
      [] pc = "handler" -> "Failed"
      [] pc = "returned" -> IF result = "output_path" THEN "Serialized" ELSE "Failed"
      [] pc = "raised" -> "Failed"
      [] pc = "done" -> "Idle"

RECURSIVE NonEmptyTexts(_)
\* The transcripts among a sequence of outcomes that are not empty, in order.
NonEmptyTexts(s) ==
    IF s = <<>> THEN <<>>
    ELSE IF Head(s) \in Texts \ {""}
           THEN <<Head(s)>> \o NonEmptyTexts(Tail(s))
           ELSE NonEmptyTexts(Tail(s))

\* An outcome with the kind of a recoverable failure erased.
Erase(o) == IF o \in RecognizerErrors THEN "failure" ELSE o

\* ------------------------------------------------------------- claims
\* C1: the loop produces exactly ceil(D/W) chunks (the least n with n*W >= D);
\* chunk k is [(k-1)*W, min(k*W, D)), non-empty, each chunk starts where its
\* predecessor ends, the first starts at 0 and the last ends at D with length
\* D - W*(count-1); a duration N*W gives N chunks, not N+1.
C1_ChunksPartitionDuration ==
    /\ total_chunks >= 0 =>
         /\ total_chunks * chunk_length_ms >= total_length_ms
         /\ (total_chunks - 1) * chunk_length_ms < total_length_ms
         /\ \A N \in 0..(MaxWindows + 1) :
              total_length_ms = N * chunk_length_ms => total_chunks = N
         /\ Len(chunks) <= total_chunks
    /\ \A k \in 1..Len(chunks) :
         /\ chunks[k][1] = (k - 1) * chunk_length_ms
         /\ chunks[k][2] = Min(k * chunk_length_ms, total_length_ms)
         /\ chunks[k][1] < chunks[k][2]
         /\ k > 1 => chunks[k][1] = chunks[k - 1][2]
    /\ LoopEnded =>
         /\ Len(chunks) = total_chunks
         /\ total_chunks > 0 =>
              /\ chunks[1][1] = 0
              /\ chunks[total_chunks][2] = total_length_ms
              /\ chunks[total_chunks][2] - chunks[total_chunks][1]
                   = total_length_ms - chunk_length_ms * (total_chunks - 1)

C1_Witness ==
    /\ pc = "save"
    /\ total_length_ms = 65000
    /\ chunks = << <<0, 30000>>, <<30000, 60000>>, <<60000, 65000>> >>

\* C2: when transcribe_audio has returned a document, its paragraphs are the
\* non-empty transcripts of the chunks, in chunk order, each once.
C2_ParagraphsInChunkOrder ==
    Succeeded => /\ doc = NonEmptyTexts(outcomes)
                 /\ Len(outcomes) = total_chunks

C2_Witness ==
    /\ Succeeded
    /\ total_length_ms = 65000
    /\ outcomes = <<"a", UnknownValueError, "b">>
    /\ doc = <<"a", "b">>

\* C3: the document never holds more paragraphs than chunks processed so far,
\* nor more than the chunk count; no paragraph is blank; a finished document
\* has as many paragraphs as chunks only if every chunk gave non-empty text.
C3_ParagraphCountBounded ==
    /\ Len(doc) <= Len(outcomes)
    /\ total_chunks >= 0 => Len(outcomes) <= total_chunks
    /\ total_chunks < 0 => Len(outcomes) = 0
    /\ \A k \in 1..Len(doc) : doc[k] # ""
    /\ (Succeeded /\ Len(doc) = total_chunks) =>
         \A k \in 1..Len(outcomes) : outcomes[k] \in Texts \ {""}

C3_Witness ==
    /\ Succeeded
    /\ total_chunks = 2
    /\ outcomes = <<"", "a">>
    /\ doc = <<"a">>

\* C4: a recognizer call that ends in UnknownValueError or RequestError leaves
\* the paragraphs appended so far as they are and does not take the request
\* to the handler: the run goes on with the chunk's clean-up; and a request
\* in which no other step raised ends with every chunk attempted and a
\* document returned.
C4_RecoverableStep ==
    (pc = "recognizing" /\ pc' # pc /\ Len(outcomes') > 0
       /\ outcomes'[Len(outcomes')] \in RecognizerErrors)
    => /\ doc' = doc
       /\ pc' = "unlink_chunk"
       /\ faults' = faults
       /\ errorShown' = errorShown

C4_RecoverableEnd ==
    (pc \in {"returned", "done"} /\ IOFaults = {})
    => /\ Succeeded
       /\ ~errorShown
       /\ \A k \in 1..total_chunks : k \in {calls[j] : j \in 1..Len(calls)}

C4_RecoverableFailureContinues == [][C4_RecoverableStep /\ C4_RecoverableEnd']_vars

C4_Witness ==
    /\ pc = "done"
    /\ downloadOffered
    /\ outcomes = <<"a", RequestError, UnknownValueError, "b">>
    /\ doc = <<"a", "b">>
    /\ calls = <<1, 2, 3, 4>>

\* C5: when the request is over no temporary file it created exists any more
\* (a file whose own os.unlink raised is not counted).
C5_Undeletable ==
    (IF "unlink_handler" \in faults THEN {tmp_path} ELSE {})
    \cup (IF "unlink_chunk" \in faults THEN {chunk_file(i + 1)} ELSE {})
    \cup (IF "unlink_output" \in faults THEN {output_path} ELSE {})

C5_NoTempFileSurvives == Ended => files \subseteq C5_Undeletable

\* C6: when decoding raised (and nothing else did) the request ends with
\* st.error called, None returned and no download offered; no slice is taken,
\* no chunk file created, the recognizer never called, and no temporary file
\* exists once the handler has run.
C6_DecodeErrorAborts ==
    faults = {"decode"} =>
        /\ chunks = <<>>
        /\ calls = <<>>
        /\ doc = <<>>
        /\ created = {tmp_path}
        /\ ~Succeeded
        /\ ~downloadOffered
        /\ pc \in {"handler", "returned", "done"}
        /\ pc \in {"returned", "done"} =>
             /\ result = "None"
             /\ errorShown
             /\ files = {}

C6_Witness ==
    /\ pc = "done"
    /\ faults = {"decode"}
    /\ result = "None"
    /\ errorShown
    /\ files = {}

\* C7 as claimed: Failed is entered only from Decoding or from Serialized.
C7_FailedOnlyFromDecodingOrSerialized ==
    [][(Phase' = "Failed" /\ Phase # "Failed")
         => Phase \in {"Decoding", "Serialized"}]_vars

\* The moves between phases the pipeline makes.
C7_PhaseMoves ==
    { <<"Idle", "Decoding">>, <<"Decoding", "Chunking">>,
      <<"Chunking", "Transcribing">>, <<"Chunking", "Assembling">>,
      <<"Transcribing", "Transcribing">>, <<"Transcribing", "Assembling">>,
      <<"Assembling", "Serialized">>, <<"Serialized", "Serialized">>,
      <<"Serialized", "Idle">>,
      <<"Decoding", "Failed">>, <<"Transcribing", "Failed">>,
      <<"Serialized", "Failed">>, <<"Failed", "Failed">>, <<"Failed", "Idle">> }

\* C7 (amended): a request moves Idle -> Decoding -> Chunking ->
\* Transcribing(1/n..n/n) -> Assembling -> Serialized -> Idle, the chunk
\* index rising one at a time and Assembling entered only once all n chunks
\* are done; Failed is entered from Decoding, from Transcribing (chunk
\* export or chunk-file removal raising) or from Serialized, and from
\* nowhere else.
C7_PhaseOrder ==
    [][/\ <<Phase, Phase'>> \in C7_PhaseMoves
       /\ i' \in {i, i + 1}
       /\ (Phase' = "Assembling" /\ Phase # "Assembling")
            => (i' = total_chunks' /\ Len(outcomes') = total_chunks')
       /\ Phase' \in {"Assembling", "Serialized"} => Len(outcomes') = total_chunks'
       /\ (Phase' = "Failed" /\ Phase # "Failed")
            => Phase \in {"Decoding", "Transcribing", "Serialized"}]_vars

C7_Witness ==
    /\ pc = "handler"
    /\ faults = {"export"}
    /\ i = 1
    /\ total_chunks = 3

\* C8: two runs over the same audio whose recognizer outcomes differ only in
\* which recoverable failure a chunk got hold the same paragraphs, and no
\* recognizer failure takes either to the handler.
C8_FailureKindsIndistinguishable ==
    /\ Len(outcomes) = Len(outcomes2)
    /\ \A k \in 1..Len(outcomes) : Erase(outcomes[k]) = Erase(outcomes2[k])
    /\ doc = doc2
    /\ "recognize" \notin faults

C8_Witness ==
    /\ pc = "done"
    /\ Succeeded
    /\ outcomes = <<"a", UnknownValueError, "b">>
    /\ outcomes2 = <<"a", RequestError, "b">>
    /\ doc = <<"a", "b">>
    /\ doc2 = <<"a", "b">>

\* C9: the recognizer is called for chunks 1, 2, ... in this order, each once;
\* a call is made only when every earlier call has returned and been handled;
\* a run that reaches the end of the loop has made exactly n calls.
C9_OneCallPerChunkInOrder ==
    /\ \A k \in 1..Len(calls) : calls[k] = k
    /\ Len(calls) = IF pc = "recognizing" THEN Len(outcomes) + 1 ELSE Len(outcomes)
    /\ pc = "recognize" => (Len(outcomes) = i /\ Len(progress) = i)
    /\ LoopEnded => Len(calls) = total_chunks

C9_Witness ==
    /\ pc = "save"
    /\ total_chunks = 3
    /\ calls = <<1, 2, 3>>
    /\ outcomes = <<RequestError, UnknownValueError, RequestError>>

\* C10: a 0 ms input gives zero chunks: no slice, no chunk file, no recognizer
\* call, no progress update; nothing raises before the document is saved, and
\* unless saving or a file removal raises the run returns a document with no
\* paragraph.
C10_ZeroDuration ==
    total_length_ms = 0 =>
        /\ total_chunks \in {-1, 0}
        /\ chunks = <<>>
        /\ calls = <<>>
        /\ progress = <<>>
        /\ doc = <<>>
        /\ created \subseteq {tmp_path, output_path}
        /\ faults \subseteq {"save", "unlink_upload", "unlink_handler", "unlink_output"}
        /\ (pc \in {"returned", "done"} /\ faults = {}) => Succeeded
        /\ (pc = "done" /\ faults = {}) => (downloadOffered /\ files = {})

C10_Witness ==
    /\ total_length_ms = 0
    /\ pc = "done"
    /\ Succeeded
    /\ downloadOffered
    /\ doc = <<>>
    /\ faults = {}

====
